---- MODULE Spec2Model ----
(***************************************************************************)
(* State-machine model of the cylindrical panorama viewer.                 *)
(*                                                                         *)
(*   PanoramaViewer            src/unnamed/part_001                        *)
(*   toRange, MouseController, SimpleController   src/src/util.ts          *)
(*                                                                         *)
(* The viewer's methods are operators on a record s holding the fields of  *)
(* the object together with the two host facilities its methods write to:  *)
(* the requestAnimationFrame queue and the texture loader's requests.      *)
(* Every action of the state machine is one host event (an API call, a     *)
(* frame callback, a loader callback, a DOM event) run to completion, as   *)
(* the single-threaded host runs it.                                       *)
(*                                                                         *)
(* Angles are integers counting micro-radians.                             *)
(***************************************************************************)
EXTENDS Integers, Sequences, FiniteSets

\* Math.PI, in micro-radians.
PI == 3141593

\* DEFAULT_SPEED, the rotation per pixel of pointer travel, in micro-radians.
DEFAULT_SPEED == 1000

\* DEFAULT_H, the height of the cylinder.
DEFAULT_H == 1

\* ------------------------------------------------------------------ bounds
\* Number of setImage calls in one behaviour.
MaxLoads == 2
\* Largest number of frame callbacks the model lets queue up.
MaxPending == 3
\* Longest label collection the model lets addLabels build.
MaxLabels == 2
\* Number of mousemove events in one behaviour.
MaxMoves == 3
\* Half-turns, either way, the angles given to toRange and setLongitude span.
MaxTurns == 13
\* Largest clientWidth and clientHeight of the parent element, in the scene
\* parameter computations.
MaxSide == 3

\* ------------------------------------------------------------------ inputs

\* labels arguments of addLabels.
AddLabelLists == { <<"L2">> }

\* labels arguments of addLabels whose order shows: one label, two, three.
LabelLists == { <<"L1">>, <<"L2", "L1">>, <<"L3", "L1", "L2">> }

\* clientX of the pointer events of a drag: 0.02 rad and 3.2 rad apart, the
\* last more than half a turn, so that it crosses the +-PI boundary from
\* every longitude.
DragXs == { 80, 100, 3300 }

\* setLongitude and controller longitude arguments: 1.0 rad, and a negative
\* multi-revolution value on the boundary of the canonical range.
LonInputs == { 1000000, 0 - 7 * PI }

\* (initialLongitude, newLabels) arguments of setImage.
ImageInputs ==
    { [initialLongitude |-> 1000000,    newLabels |-> << "L1" >>],
      [initialLongitude |-> 0 - 7 * PI, newLabels |-> << "L2", "L1" >>] }

\* Angles around every multiple of PI up to MaxTurns half-turns: the multiple
\* itself, its two neighbours, and an angle inside the half-turn. They reach
\* the first odd multiples of PI that toRange folds to the other end of the
\* range, -11 PI and 13 PI.
AngleOffsets == {-1, 0, 1, 1000000}
AngleInputs == { k * PI + d : k \in (0 - MaxTurns) .. MaxTurns, d \in AngleOffsets }

\* clientWidth and clientHeight of the parent element; 0 is an element that
\* is not laid out.
Sides == 0 .. MaxSide

\* The distortion argument of the constructor, in tenths: 1.0, 1.1, ... 2.0.
Distortions == 10 .. 20

\* horizontalFov as calculateSceneParameters stores it for a square window
\* (55 degrees, 0.9599310885968811) and for a 16:9 window
\* (1.493401273872636), in whole micro-radians. Half of either lies between
\* two micro-radians, as the double does.
HorizontalFovs == {959931, 1493401}

\* repeatCount values, as fractions: the image covers two turns (1/2), or a
\* third of a turn (3).
RepeatCounts == { <<1, 2>>, <<3, 1>> }

\* clientX of the pointer events: a drag of 20 pixels either way, or none.
\* From the longitude PI the drag 100 -> 80 crosses the boundary.
MouseXs == {80, 100}

\* Sizes the parent element takes; it has size 1 when the viewer is built.
Viewports == {1, 2}

\* --------------------------------------------------------- AngleNormalizer
\* JavaScript's % : the remainder takes the sign of the dividend.
JsRem(a, b) == IF a >= 0 THEN a % b ELSE 0 - ((0 - a) % b)

\* toRange with the boundary PI folded down to -PI.
toRange_foldingPI(value) ==
    LET a == JsRem(JsRem(value, 2 * PI) + 2 * PI, 2 * PI)
    IN  IF a >= PI THEN a - 2 * PI ELSE a

\* The doubles just above -PI, which toRange returns for a double just above
\* PI + 2 PI n: the lowest micro-radian of the range (-PI, PI].
AboveMinusPI == 1 - PI

\* The odd multiples k of PI, up to 45, whose double k * Math.PI leaves
\* line 6 one step of the double above Math.PI; the others up to 45 leave
\* it on Math.PI or one step below.
FoldedTurns ==
    ({ k \in (0 - 45) .. 45 : k % 4 = 1 /\ (k >= 13 \/ k <= 0 - 11) } \ {41})
        \cup {0 - 41}

\* Line 7 compares doubles: a is above Math.PI also for the odd multiples of
\* PI in FoldedTurns, and the result is then just above -PI.
toRange(value) ==
    LET a == JsRem(JsRem(value, 2 * PI) + 2 * PI, 2 * PI)
    IN  IF a = PI /\ value % PI = 0 /\ (value \div PI) \in FoldedTurns
        THEN AboveMinusPI
        ELSE IF a > PI THEN a - 2 * PI ELSE a

\* Whether the double j * Math.PI + 2 * Math.PI * n, for an odd j up to 13
\* and n up to 14 either way, leaves line 6 one step above Math.PI. The sum
\* is rounded once more than the product (j + 2 n) * Math.PI, and follows
\* FoldedTurns only for |j| <= 9 and |n| <= 10.
SumFolds(j, n) ==
    IF n \in {0 - 11, 13} THEN TRUE
    ELSE IF n \in {0 - 13, 11} THEN FALSE
    ELSE IF n \in {0 - 14, 0 - 12, 12, 14} THEN j % 4 = 1
    ELSE IF j = 13 THEN n # 7
    ELSE IF j = 0 - 11 THEN n \notin {0 - 9, 0 - 5}
    ELSE IF j = 11 THEN n \in {5, 9}
    ELSE IF j = 0 - 13 THEN n = 0 - 7
    ELSE (j + 2 * n) \in FoldedTurns

\* toRange(value + 2 * Math.PI * n): on the seam the end of the range is the
\* one the double of the sum takes.
toRangeOfSum(value, n) ==
    LET sum == value + 2 * PI * n
        a   == JsRem(JsRem(sum, 2 * PI) + 2 * PI, 2 * PI)
    IN  IF a = PI
        THEN IF SumFolds(value \div PI, n) THEN AboveMinusPI ELSE PI
        ELSE toRange(sum)

\* The double a difference of doubles is rounded to. Where the micro-radians
\* put the difference on PI + 2 PI n, or on the micro-radian above it (where
\* a longitude that was folded to AboveMinusPI leads back), the double lies
\* on the seam or below it, or just above it: the micro-radians do not tell
\* which, and up is the side it takes.
Rounded(value, up) ==
    LET over == (value - PI) % (2 * PI)
    IN  IF over = 0 /\ up THEN value + 1
        ELSE IF over = 1 /\ ~up THEN value - 1
        ELSE value

\* What toRange can return for a difference of doubles.
Normalized(value) == { toRange(Rounded(value, up)) : up \in BOOLEAN }

\* Longitudes the controller holds when the labels are placed; the last one
\* is a SimpleController's, assigned directly.
LabelLongitudes == {1000000, 0 - 3000000, 0 - 7 * PI}

\* Bearings of a label, position.x * 2 PI: on every longitude, and half a
\* horizontalFov to either side of it: the last micro-radian inside the view,
\* the one before it and the first micro-radian beyond. Those around PI and
\* around -3 rad lie beyond the +-PI boundary on one side.
LabelBearings ==
    { toRange(l) + side * ((h \div 2) + e) :
        l \in LabelLongitudes, side \in {-1, 1}, h \in HorizontalFovs,
        e \in {-1, 0, 1} }
    \cup { toRange(l) + 2 * PI * n : l \in LabelLongitudes, n \in {-1, 0, 1} }


\* ----------------------------------------------------------------- numbers
\* The numbers of the scene parameter computations are exact fractions n/d,
\* d > 0, in lowest terms, together with the three values a division by zero
\* brings in: Infinity (1/0), -Infinity (-1/0) and NaN (0/0). The sign of a
\* zero is left out.
Sign(i) == IF i > 0 THEN 1 ELSE IF i < 0 THEN 0 - 1 ELSE 0

Abs(i) == IF i < 0 THEN 0 - i ELSE i

RECURSIVE GCD(_, _)
GCD(a, b) == IF b = 0 THEN a ELSE GCD(b, a % b)

Num(n, d) ==
    IF d = 0 THEN [n |-> Sign(n), d |-> 0]
    ELSE LET g == GCD(Abs(n), Abs(d))
         IN  [n |-> Sign(d) * (n \div g), d |-> Abs(d) \div g]

Whole(i) == [n |-> i, d |-> 1]

NaN == [n |-> 0, d |-> 0]

IsFinite(x) == x.d # 0

NumNeg(x) == [n |-> 0 - x.n, d |-> x.d]

\* x * y
NumMul(x, y) ==
    IF x.d = 0 \/ y.d = 0
    THEN [n |-> Sign(x.n * y.n), d |-> 0]
    ELSE LET g1 == GCD(Abs(x.n), y.d)
             g2 == GCD(Abs(y.n), x.d)
         IN  Num((x.n \div g1) * (y.n \div g2), (x.d \div g2) * (y.d \div g1))

\* x / y
NumDiv(x, y) ==
    IF y.d = 0
    THEN IF x.d = 0 \/ y.n = 0 THEN NaN ELSE Whole(0)
    ELSE IF y.n = 0
    THEN [n |-> Sign(x.n), d |-> 0]
    ELSE NumMul(x, Num(y.d, y.n))

\* x + y
NumAdd(x, y) ==
    IF x.d = 0 /\ y.d = 0 THEN (IF x.n = y.n THEN x ELSE NaN)
    ELSE IF x.d = 0 THEN x
    ELSE IF y.d = 0 THEN y
    ELSE LET l == (x.d \div GCD(x.d, y.d)) * y.d
         IN  Num(x.n * (l \div x.d) + y.n * (l \div y.d), l)

NumSub(x, y) == NumAdd(x, NumNeg(y))

\* x > y; a comparison with NaN is false.
NumGt(x, y) ==
    IF x = NaN \/ y = NaN THEN FALSE
    ELSE IF x.d = 0 /\ y.d = 0 THEN x.n > y.n
    ELSE IF x.d = 0 THEN x.n > 0
    ELSE IF y.d = 0 THEN y.n < 0
    ELSE NumSub(x, y).n > 0

\* Math.tan(DEFAULT_FOV / 2), the tangent of 27.5 degrees (0.52057), as the
\* fraction 25/48 (0.52083).
TAN_HALF_FOV == Num(25, 48)

\* The scene parameters with the distance d stored as the radius.
SceneParameters_radiusIsD(aspectRatio, thisDistortion) ==
    LET tanHalfHorizontalFov == NumMul(TAN_HALF_FOV, aspectRatio)
        distortion == NumAdd(Whole(1),
                             NumDiv(NumDiv(NumSub(thisDistortion, Whole(1)), aspectRatio),
                                    aspectRatio))
        H    == Whole(DEFAULT_H)
        diff == NumDiv(NumDiv(H, Whole(2)), TAN_HALF_FOV)
        d    == NumMul(diff, NumSub(Whole(1), NumDiv(Whole(1), distortion)))
        side == NumDiv(NumDiv(NumDiv(H, Whole(2)), distortion), aspectRatio)
        R    == d
        r    == NumSub(R, diff)
    IN  [ tanHalfHorizontalFov |-> tanHalfHorizontalFov,
          cylinderHeight       |-> H,
          d                    |-> d,
          cylinderRadius       |-> R,
          cameraRadius         |-> r,
          exception            |-> FALSE ]

\* calculateSceneParameters as arithmetic: the fields it stores, from the
\* aspectRatio field and the distortion field. horizontalFov is kept as the
\* tangent of its half.
SceneParameters(aspectRatio, thisDistortion) ==
    LET tanHalfHorizontalFov == NumMul(TAN_HALF_FOV, aspectRatio)
        distortion == NumAdd(Whole(1),
                             NumDiv(NumDiv(NumSub(thisDistortion, Whole(1)), aspectRatio),
                                    aspectRatio))
        H    == Whole(DEFAULT_H)
        diff == NumDiv(NumDiv(H, Whole(2)), TAN_HALF_FOV)
        d    == NumMul(diff, NumSub(Whole(1), NumDiv(Whole(1), distortion)))
        side == NumDiv(NumDiv(NumDiv(H, Whole(2)), distortion), aspectRatio)
        R    == NumDiv(NumAdd(NumMul(d, d), NumMul(side, side)), NumMul(Whole(2), d))
        r    == NumSub(R, diff)
    IN  [ tanHalfHorizontalFov |-> tanHalfHorizontalFov,
          cylinderHeight       |-> H,
          d                    |-> d,
          cylinderRadius       |-> R,
          cameraRadius         |-> r,
          exception            |-> FALSE ]

\* ------------------------------------------------------------------- state
VARIABLES
    viewer,     \* the PanoramaViewer object, its controller, and the host
                \* queues its methods write to (frame callbacks, loads)
    viewport,   \* the size the parent element currently has
    issued,     \* number of setImage calls made so far
    latest,     \* the arguments of the latest setImage call
    alone,      \* the request in flight that was issued with no other in flight (0: none)
    untouched,  \* per request in flight, as long as no other operation has written
                \* longitude or labels since it was issued: the values it was issued under
    last        \* the host event handled last

vars == << viewer, viewport, issued, latest, alone, untouched, last >>

\* The repeatCount field initialiser (= 1): derived from no geometry, no image.
InitialRepeatCount == [geometry |-> 0, image |-> 0]

\* No tick has written a texture offset yet.
NoOffset == [texture |-> 0, repeatCount |-> InitialRepeatCount, longitude |-> 0]

\* PanoramaViewer after its constructor: a MouseController at longitude 0,
\* no texture, no geometry, an empty scene, nothing scheduled.
NewViewer ==
    [ isAnimating    |-> FALSE,
      isLoadingImage |-> FALSE,
      frames         |-> 0,          \* callbacks waiting in requestAnimationFrame
      texture        |-> 0,          \* 0: undefined; n: the Texture of request n
      images         |-> {},         \* textures whose image has arrived
      requests       |-> {},         \* loads in flight, each with its callback's closure
      controller     |-> "MouseController",
      longitude      |-> toRange(0), \* controller.longitude
      isMouseEnabled |-> TRUE,       \* the MouseController's fields; its listeners are
      listening      |-> TRUE,       \* attached to the renderer's canvas by the constructor
      isPressed      |-> FALSE,
      prevPosition   |-> << >>,      \* << >>: null; << x >>: x
      moves          |-> 0,          \* mousemove events the host has delivered
      labels         |-> << >>,
      rendererSize   |-> 0,          \* 0: never set; n: viewport n
      aspectRatio    |-> 0,          \* the viewport it was computed from
      geometry       |-> 0,          \* the aspectRatio R, H, r and horizontalFov come from
      repeatCount    |-> InitialRepeatCount,
      meshMap        |-> 0,          \* texture mapped on the scene's cylinder (0: empty scene)
      meshGeometry   |-> 0,          \* geometry the cylinder was built with
      camera         |-> 0,          \* geometry the camera was placed with
      offset         |-> NoOffset,   \* texture.offset this event wrote
      tick           |-> << >>,      \* steps this event's frame callback performed
      onLoaded       |-> << >>,      \* requests whose onLoaded callback has been called
      exception      |-> FALSE ]     \* the event being handled threw

\* ------------------------------------------------------- RotationController
\* A setter that stores the value as given, whatever the controller.
setControllerLongitude_raw(s, value) ==
    [s EXCEPT !.longitude = value]

\* controller.longitude = value, through the installed controller's setter:
\* MouseController normalises, SimpleController is a plain field.
setControllerLongitude(s, value) ==
    [s EXCEPT !.longitude =
        IF s.controller = "MouseController" THEN toRange(value) ELSE value]

\* MouseController's longitude setter.
setMouseLongitude(s, value) ==
    [s EXCEPT !.longitude = toRange(value)]

\* The isMouseEnabled setter storing the flag and leaving the listeners as
\* they are.
setIsMouseEnabled_flagOnly(s, value) ==
    [s EXCEPT !.isMouseEnabled = value]

\* MouseController's isMouseEnabled setter, its root being set: it attaches
\* or detaches the three listeners and writes nothing else.
setIsMouseEnabled(s, value) ==
    [s EXCEPT !.isMouseEnabled = value, !.listening = value]

onMouseDown(s, clientX) ==
    [s EXCEPT !.isPressed = TRUE, !.prevPosition = << clientX >>]

onMouseUp(s) ==
    [s EXCEPT !.isPressed = FALSE, !.prevPosition = << >>]

\* onMouseMove with the sign of the rotation reversed.
onMouseMove_reversed(s, clientX, up) ==
    IF s.isPressed
    THEN LET prev == IF s.prevPosition = << >> THEN 0 ELSE s.prevPosition[1]
             s1 == setMouseLongitude(s, s.longitude + (clientX - prev) * DEFAULT_SPEED)
             s2 == setMouseLongitude(s1, toRange(s1.longitude))
         IN  [s2 EXCEPT !.prevPosition = << clientX >>]
    ELSE s

\* onMouseMove that keeps the position of the mousedown.
onMouseMove_stale(s, clientX, up) ==
    IF s.isPressed
    THEN LET prev == IF s.prevPosition = << >> THEN 0 ELSE s.prevPosition[1]
             to == s.longitude - (clientX - prev) * DEFAULT_SPEED
             s1 == setMouseLongitude(s, IF clientX = prev THEN to ELSE Rounded(to, up))
         IN  setMouseLongitude(s1, toRange(s1.longitude))
    ELSE s

\* onMouseMove without the test of isPressed.
onMouseMove_unguarded(s, clientX, up) ==
    LET prev == IF s.prevPosition = << >> THEN 0 ELSE s.prevPosition[1]
        to == s.longitude - (clientX - prev) * DEFAULT_SPEED
        s1 == setMouseLongitude(s, IF clientX = prev THEN to ELSE Rounded(to, up))
        s2 == setMouseLongitude(s1, toRange(s1.longitude))
    IN  [s2 EXCEPT !.prevPosition = << clientX >>]

\* clientX - this.prevPosition: null converts to 0. The difference
\* longitude - (clientX - prevPosition) * mouseSpeed is a rounded double
\* unless the pointer has not moved; up is the side of the seam it takes.
onMouseMove(s, clientX, up) ==
    IF s.isPressed
    THEN LET prev == IF s.prevPosition = << >> THEN 0 ELSE s.prevPosition[1]
             to == s.longitude - (clientX - prev) * DEFAULT_SPEED
             s1 == setMouseLongitude(s, IF clientX = prev THEN to ELSE Rounded(to, up))
             s2 == setMouseLongitude(s1, toRange(s1.longitude))
         IN  [s2 EXCEPT !.prevPosition = << clientX >>]
    ELSE s

\* ---------------------------------------------------------- PanoramaViewer
\* a / (n/d) on micro-radians, rounded towards 0.
DivideBy(a, q) == Sign(a) * ((Abs(a) * q[2]) \div q[1])

\* The label placed by its bearing alone, whatever the longitude.
labelPosition_unturned(bearing, longitude, horizontalFov, repeatCount) ==
    LET alpha == bearing
        delta == toRange(alpha)
        phi   == toRange(DivideBy(0 - delta, repeatCount))
    IN  [ delta   |-> delta,
          phi     |-> phi,
          display |-> IF 2 * Abs(delta) > horizontalFov THEN "none" ELSE "block" ]

\* The label shown up to a whole horizontalFov from the view direction.
labelPosition_wholeFov(bearing, longitude, horizontalFov, repeatCount) ==
    LET alpha == bearing
        beta  == toRange(longitude)
        delta == toRange(alpha - beta)
        phi   == toRange(DivideBy(0 - delta, repeatCount))
    IN  [ delta   |-> delta,
          phi     |-> phi,
          display |-> IF Abs(delta) > horizontalFov THEN "none" ELSE "block" ]

\* The body of updateLabelPositions for one label whose position.x * 2 PI is
\* bearing. The place on the cylinder is kept as the angle phi around its
\* axis: x = R sin(phi), z = R cos(phi), so that phi = 0 is the point
\* (0, y, R) the camera looks at. The test |delta| > horizontalFov / 2 is
\* written 2 |delta| > horizontalFov on the whole micro-radians.
\* The pixel coordinates come from the renderer's camera and are left out.
labelPosition(bearing, longitude, horizontalFov, repeatCount) ==
    LET alpha == bearing
        beta  == toRange(longitude)
        delta == toRange(alpha - beta)
        phi   == toRange(DivideBy(0 - delta, repeatCount))
    IN  [ delta   |-> delta,
          phi     |-> phi,
          display |-> IF 2 * Abs(delta) > horizontalFov THEN "none" ELSE "block" ]

startAnimationLoop(s) ==
    [s EXCEPT !.isAnimating = TRUE, !.frames = @ + 1]

\* stopAnimationLoop that also drops what the viewer shows.
stopAnimationLoop_resetting(s) ==
    [s EXCEPT !.isAnimating = FALSE, !.labels = << >>,
              !.repeatCount = InitialRepeatCount]

stopAnimationLoop(s) ==
    [s EXCEPT !.isAnimating = FALSE]

clearLabels(s) ==
    [s EXCEPT !.labels = << >>]

\* addLabels putting the new labels in front.
addLabels_prepending(s, labels) ==
    [s EXCEPT !.labels = labels \o @]

addLabels(s, labels) ==
    [s EXCEPT !.labels = @ \o labels]

setLongitude(s, longitude) ==
    setControllerLongitude(s, toRange(longitude))

updateRenderer(s, vp) ==
    [s EXCEPT !.rendererSize = vp, !.aspectRatio = vp]

calculateSceneParameters(s) ==
    [s EXCEPT !.geometry = s.aspectRatio]

\* this.texture.image.width: a TypeError when texture is undefined or its
\* image has not arrived.
updateTexture(s) ==
    IF s.texture = 0 \/ s.texture \notin s.images
    THEN [s EXCEPT !.exception = TRUE]
    ELSE [s EXCEPT !.repeatCount = [geometry |-> s.geometry, image |-> s.texture]]

updateScene(s) ==
    [s EXCEPT !.meshMap = s.texture, !.meshGeometry = s.geometry]

updateCamera(s) ==
    [s EXCEPT !.camera = s.geometry]

\* update computing repeatCount before the geometry.
update_staleGeometry(s, vp) ==
    LET s1 == updateTexture(updateRenderer(s, vp))
        s2 == calculateSceneParameters(s1)
    IN  IF s1.exception THEN s2 ELSE updateCamera(updateScene(s2))

\* update that also drops the labels and recentres the view.
update_resetting(s, vp) ==
    LET s1 == calculateSceneParameters(updateRenderer(s, vp))
        s2 == updateTexture(s1)
    IN  IF s2.exception THEN s2
        ELSE [updateCamera(updateScene(s2)) EXCEPT !.labels = << >>, !.longitude = 0]

update(s, vp) ==
    LET s1 == calculateSceneParameters(updateRenderer(s, vp))
        s2 == updateTexture(s1)
    IN  IF s2.exception THEN s2 ELSE updateCamera(updateScene(s2))

\* One frame callback, already taken off the queue.
animationLoop(s) ==
    IF s.texture = 0
    THEN [s EXCEPT !.exception = TRUE, !.tick = << >>]
    ELSE LET s1 == [s EXCEPT
                      !.offset = [texture     |-> s.texture,
                                  repeatCount |-> s.repeatCount,
                                  longitude   |-> s.longitude]]
         IN  IF s1.isAnimating
             THEN [s1 EXCEPT !.frames = @ + 1,
                             !.tick = << "offset", "render", "labels", "schedule" >>]
             ELSE [s1 EXCEPT !.tick = << "offset", "render", "labels" >>]

onTextureLoaded(s, txt, initialLongitude, vp) ==
    LET s1 == setControllerLongitude([s EXCEPT !.texture = txt], initialLongitude)
        s2 == update(s1, vp)
    IN  IF s2.exception THEN s2 ELSE startAnimationLoop(s2)

\* onLoad adding the new labels to the collection without clearing it.
onLoad_appending(s, r, vp) ==
    LET s1 == onTextureLoaded(s, r.id, r.initialLongitude, vp)
        s2 == addLabels(s1, r.newLabels)
        s3 == IF r.isAnimating THEN startAnimationLoop(s2) ELSE s2
    IN  IF s1.exception THEN s1
        ELSE [s3 EXCEPT !.isLoadingImage = FALSE,
                        !.onLoaded = Append(@, r.id)]

\* onLoad calling onLoaded while isLoadingImage is still set.
onLoad_stillLoading(s, r, vp) ==
    LET s1 == onTextureLoaded(s, r.id, r.initialLongitude, vp)
        s2 == addLabels(clearLabels(s1), r.newLabels)
        s3 == IF r.isAnimating THEN startAnimationLoop(s2) ELSE s2
    IN  IF s1.exception THEN s1
        ELSE [s3 EXCEPT !.onLoaded = Append(@, r.id)]

\* The onLoad callback loadImage hands to the texture loader; r is its closure.
onLoad(s, r, vp) ==
    LET s1 == onTextureLoaded(s, r.id, r.initialLongitude, vp)
        s2 == addLabels(clearLabels(s1), r.newLabels)
        s3 == IF r.isAnimating THEN startAnimationLoop(s2) ELSE s2
    IN  IF s1.exception THEN s1
        ELSE [s3 EXCEPT !.isLoadingImage = FALSE,
                        !.onLoaded = Append(@, r.id)]

\* loadImage installing the request's longitude and labels before the image
\* has arrived.
loadImage_eager(s, id, initialLongitude, newLabels) ==
    LET isAnimating == s.isAnimating
        s1 == setControllerLongitude(stopAnimationLoop(s), initialLongitude)
        s2 == addLabels(clearLabels(s1), newLabels)
    IN  [s2 EXCEPT !.isLoadingImage = TRUE,
                   !.texture = id,
                   !.requests = @ \cup { [ id               |-> id,
                                           initialLongitude |-> initialLongitude,
                                           newLabels        |-> newLabels,
                                           isAnimating      |-> isAnimating ] }]

\* id names the Texture object textureLoader.load returns at once.
loadImage(s, id, initialLongitude, newLabels) ==
    LET s1 == [s EXCEPT !.isLoadingImage = TRUE]
        isAnimating == s1.isAnimating
        s2 == stopAnimationLoop(s1)
    IN  [s2 EXCEPT !.texture = id,
                   !.requests = @ \cup { [ id               |-> id,
                                           initialLongitude |-> initialLongitude,
                                           newLabels        |-> newLabels,
                                           isAnimating      |-> isAnimating ] }]

setImage(s, id, initialLongitude, newLabels) ==
    loadImage(s, id, initialLongitude, newLabels)


\* ------------------------------------------------------------- host events
\* The state a handler starts from: nothing drawn, no exception propagating.
Enter == [viewer EXCEPT !.exception = FALSE, !.tick = << >>, !.offset = NoOffset]

NoRequest ==
    [id |-> 0, initialLongitude |-> 0, newLabels |-> << >>, isAnimating |-> FALSE]

\* An event that resolves no request.
Event(op) ==
    [ op |-> op, r |-> NoRequest, alone |-> FALSE,
      untouched |-> FALSE, longitude |-> 0, labels |-> << >> ]

\* The event that resolves request r. A load that completes replaces the
\* label collection: held is the collection it replaced.
Resolve(op, r) ==
    LET held == IF op = "onLoad" THEN viewer.labels ELSE << >>
    IN  IF \E u \in untouched : u.id = r.id
        THEN LET u == CHOOSE x \in untouched : x.id = r.id
             IN  [ op |-> op, r |-> r, alone |-> alone = r.id, held |-> held,
                   untouched |-> TRUE, longitude |-> u.longitude, labels |-> u.labels ]
        ELSE [ op |-> op, r |-> r, alone |-> alone = r.id, held |-> held,
               untouched |-> FALSE, longitude |-> 0, labels |-> << >> ]

Init ==
    /\ viewer = NewViewer
    /\ viewport = 1
    /\ issued = 0
    /\ latest = [id |-> 0, initialLongitude |-> 0, newLabels |-> << >>]
    /\ alone = 0
    /\ untouched = {}
    /\ last = Event("new")

StartAnimationLoop ==
    /\ viewer.frames < MaxPending
    /\ viewer' = startAnimationLoop(Enter)
    /\ last' = Event("startAnimationLoop")
    /\ UNCHANGED << viewport, issued, latest, alone, untouched >>

StopAnimationLoop ==
    /\ viewer' = stopAnimationLoop(Enter)
    /\ last' = Event("stopAnimationLoop")
    /\ UNCHANGED << viewport, issued, latest, alone, untouched >>

SetImage ==
    /\ issued < MaxLoads
    /\ \E a \in ImageInputs :
          /\ viewer' = setImage(Enter, issued + 1, a.initialLongitude, a.newLabels)
          /\ latest' = [ id |-> issued + 1, initialLongitude |-> a.initialLongitude,
                         newLabels |-> a.newLabels ]
    /\ issued' = issued + 1
    /\ alone' = IF viewer.requests = {} THEN issued + 1 ELSE alone
    /\ untouched' = untouched \cup { [ id        |-> issued + 1,
                                       longitude |-> viewer.longitude,
                                       labels    |-> viewer.labels ] }
    /\ last' = Event("setImage")
    /\ UNCHANGED viewport

\* The image of a request arrives: the loader stores it in the request's
\* texture and calls onLoad.
LoadComplete ==
    \E r \in viewer.requests :
        /\ viewer.frames + 2 <= MaxPending
        /\ viewer' = onLoad([Enter EXCEPT !.requests = @ \ {r},
                                          !.images = @ \cup {r.id}],
                            r, viewport)
        /\ alone' = IF alone = r.id THEN 0 ELSE alone
        /\ untouched' = {}
        /\ last' = Resolve("onLoad", r)
        /\ UNCHANGED << viewport, issued, latest >>

\* The image of a request cannot be loaded. loadImage passes the loader no
\* onError callback, so no code of the viewer runs.
LoadFail ==
    \E r \in viewer.requests :
        /\ viewer' = [Enter EXCEPT !.requests = @ \ {r}]
        /\ alone' = IF alone = r.id THEN 0 ELSE alone
        /\ untouched' = { u \in untouched : u.id # r.id }
        /\ last' = Resolve("onError", r)
        /\ UNCHANGED << viewport, issued, latest >>

\* The host runs one queued frame callback.
Tick ==
    /\ viewer.frames > 0
    /\ viewer' = animationLoop([Enter EXCEPT !.frames = @ - 1])
    /\ last' = Event("animationLoop")
    /\ UNCHANGED << viewport, issued, latest, alone, untouched >>

SetLongitude ==
    /\ \E longitude \in LonInputs : viewer' = setLongitude(Enter, longitude)
    /\ untouched' = {}
    /\ last' = Event("setLongitude")
    /\ UNCHANGED << viewport, issued, latest, alone >>

ClearLabels ==
    /\ viewer' = clearLabels(Enter)
    /\ untouched' = {}
    /\ last' = Event("clearLabels")
    /\ UNCHANGED << viewport, issued, latest, alone >>

AddLabels ==
    /\ \E labels \in AddLabelLists :
          /\ Len(viewer.labels) + Len(labels) <= MaxLabels
          /\ viewer' = addLabels(Enter, labels)
    /\ untouched' = {}
    /\ last' = Event("addLabels")
    /\ UNCHANGED << viewport, issued, latest, alone >>

\* viewer.controller = c, where c is a new MouseController(longitude, root)
\* or a new SimpleController whose longitude field the caller has assigned.
InstallController ==
    /\ \E c \in {"MouseController", "SimpleController"}, longitude \in LonInputs :
          viewer' = setControllerLongitude(
                        [Enter EXCEPT !.controller = c,
                                      !.isMouseEnabled = TRUE, !.listening = TRUE,
                                      !.isPressed = FALSE, !.prevPosition = << >>],
                        longitude)
    /\ untouched' = {}
    /\ last' = Event("controller")
    /\ UNCHANGED << viewport, issued, latest, alone >>

\* The window's resize event, after the parent element took another size.
Resize ==
    /\ \E vp \in Viewports :
          /\ viewport' = vp
          /\ viewer' = update(Enter, vp)
    /\ last' = Event("resize")
    /\ UNCHANGED << issued, latest, alone, untouched >>

\* A pointer event on the canvas, with what the controller held before it.
Pointer(op, clientX) ==
    [ op |-> op, x |-> clientX, heard |-> viewer.listening,
      pressed |-> viewer.isPressed, from |-> viewer.prevPosition,
      before |-> viewer.longitude ]

\* Pointer events reach the viewer's controller while it is the
\* MouseController, and only through the listeners it has attached.
MouseDown ==
    /\ viewer.controller = "MouseController"
    /\ \E x \in MouseXs :
          /\ viewer' = IF viewer.listening THEN onMouseDown(Enter, x) ELSE Enter
          /\ last' = Pointer("mousedown", x)
    /\ UNCHANGED << viewport, issued, latest, alone, untouched >>

MouseUp ==
    /\ viewer.controller = "MouseController"
    /\ \E x \in MouseXs :
          /\ viewer' = IF viewer.listening THEN onMouseUp(Enter) ELSE Enter
          /\ last' = Pointer("mouseup", x)
    /\ UNCHANGED << viewport, issued, latest, alone, untouched >>

MouseMove ==
    /\ viewer.controller = "MouseController"
    /\ viewer.moves < MaxMoves
    /\ \E x \in MouseXs, up \in BOOLEAN :
          /\ viewer' = LET s == [Enter EXCEPT !.moves = @ + 1]
                       IN  IF viewer.listening THEN onMouseMove(s, x, up) ELSE s
          /\ last' = Pointer("mousemove", x)
    /\ untouched' = {}
    /\ UNCHANGED << viewport, issued, latest, alone >>

\* The pointer leaves the canvas. The controller attaches no listener for it.
MouseLeave ==
    /\ viewer.controller = "MouseController"
    /\ \E x \in MouseXs :
          /\ viewer' = Enter
          /\ last' = Pointer("mouseleave", x)
    /\ UNCHANGED << viewport, issued, latest, alone, untouched >>

\* viewer.controller.isMouseEnabled = value
SetMouseEnabled ==
    /\ viewer.controller = "MouseController"
    /\ \E value \in BOOLEAN :
          /\ viewer' = setIsMouseEnabled(Enter, value)
          /\ last' = Pointer("isMouseEnabled", 0)
    /\ UNCHANGED << viewport, issued, latest, alone, untouched >>

\* The viewer's lifecycle: its public operations, the frame callbacks and
\* the loader's callbacks, in a window that keeps its size.
Next ==
    \/ StartAnimationLoop
    \/ StopAnimationLoop
    \/ SetImage
    \/ LoadComplete
    \/ LoadFail
    \/ Tick
    \/ SetLongitude
    \/ ClearLabels
    \/ AddLabels
    \/ InstallController

Spec == Init /\ [][Next]_vars

\* The same in a window that is resized.
NextResize == Next \/ Resize

SpecResize == Init /\ [][NextResize]_vars

\* viewer.addLabels(labels) with lists of several labels; the record of the
\* call keeps the argument and the collection the viewer held.
AddLabelList ==
    /\ \E labels \in LabelLists :
          /\ Len(viewer.labels) + Len(labels) <= 2 * MaxLabels
          /\ viewer' = addLabels(Enter, labels)
          /\ last' = [ op |-> "addLabelList", labels |-> labels,
                       held |-> viewer.labels ]
    /\ untouched' = {}
    /\ UNCHANGED << viewport, issued, latest, alone >>

\* The label collection: appended to, cleared, and replaced by the loads
\* that complete.
NextLabelList ==
    \/ AddLabelList
    \/ ClearLabels
    \/ SetImage
    \/ LoadComplete

SpecLabelList == Init /\ [][NextLabelList]_vars

\* The animation loop around loads: starts, stops, ticks, loads that
\* complete, and the label and longitude changes a stop must leave alone.
NextLoop ==
    \/ StartAnimationLoop
    \/ StopAnimationLoop
    \/ Tick
    \/ SetImage
    \/ LoadComplete
    \/ AddLabels
    \/ SetLongitude

SpecLoop == Init /\ [][NextLoop]_vars

\* The viewer showing images while its window is resized: loads, label and
\* longitude changes, and resize events.
NextReady ==
    \/ SetImage
    \/ LoadComplete
    \/ AddLabels
    \/ SetLongitude
    \/ Resize

SpecReady == Init /\ [][NextReady]_vars

\* An update of a viewer built with the given distortion, in a parent element
\* of the given size: updateRenderer divides the sides, and
\* calculateSceneParameters stores the parameters.
CalculateSceneParameters ==
    /\ \E width \in Sides, height \in Sides, distortion \in Distortions :
          LET aspectRatio == NumDiv(Whole(width), Whole(height))
          IN  last' = [ op |-> "calculateSceneParameters",
                        width |-> width, height |-> height,
                        distortion  |-> distortion,
                        aspectRatio |-> aspectRatio,
                        stored      |-> SceneParameters(aspectRatio, Num(distortion, 10)) ]
    /\ viewer' = Enter
    /\ UNCHANGED << viewport, issued, latest, alone, untouched >>

\* One label placed by updateLabelPositions, for a longitude, a horizontalFov
\* and a repeatCount the viewer holds.
UpdateLabelPositions ==
    /\ \E bearing \in LabelBearings, longitude \in LabelLongitudes,
          horizontalFov \in HorizontalFovs, repeatCount \in RepeatCounts :
          last' = [ op |-> "updateLabelPositions",
                    bearing |-> bearing, longitude |-> longitude,
                    horizontalFov |-> horizontalFov, repeatCount |-> repeatCount,
                    label |-> labelPosition(bearing, longitude, horizontalFov, repeatCount) ]
    /\ viewer' = Enter
    /\ UNCHANGED << viewport, issued, latest, alone, untouched >>

\* The label projection by itself.
NextLabels ==
    UpdateLabelPositions

SpecLabels == Init /\ [][NextLabels]_vars

\* The scene parameter arithmetic by itself.
NextSolver ==
    CalculateSceneParameters

SpecSolver == Init /\ [][NextSolver]_vars

\* viewer.setLongitude(x), then a read of viewer.controller.longitude.
RoundTrip ==
    /\ \E x \in AngleInputs :
          /\ viewer' = setLongitude(Enter, x)
          /\ last' = [ op |-> "roundTrip", x |-> x,
                       read |-> setLongitude(Enter, x).longitude ]
    /\ untouched' = {}
    /\ UNCHANGED << viewport, issued, latest, alone >>

\* toRange(x), and toRange of the result.
Normalise ==
    /\ \E x \in AngleInputs :
          last' = [ op |-> "toRange", x |-> x, value |-> toRange(x),
                    again |-> toRange(toRange(x)) ]
    /\ viewer' = Enter
    /\ UNCHANGED << viewport, issued, latest, alone, untouched >>

\* The angle arithmetic: toRange by itself, and setLongitude with either
\* controller installed.
NextAngle ==
    \/ Normalise
    \/ RoundTrip
    \/ InstallController

SpecAngle == Init /\ [][NextAngle]_vars

\* A mousedown the controller hears; the record keeps where the drag began:
\* the position x0 and the longitude L0.
DragDown ==
    /\ viewer.controller = "MouseController"
    /\ viewer.listening
    /\ \E x \in DragXs :
          /\ viewer' = onMouseDown(Enter, x)
          /\ last' = [ op |-> "dragdown", x |-> x, x0 |-> x,
                       L0 |-> viewer.longitude, n |-> 0 ]
    /\ UNCHANGED << viewport, issued, latest, alone, untouched >>

\* A mousemove that follows the mousedown or another mousemove of the same
\* drag; n counts the moves of the drag.
DragMove ==
    /\ viewer.controller = "MouseController"
    /\ viewer.listening
    /\ last.op \in { "dragdown", "dragmove" }
    /\ viewer.moves < MaxMoves
    /\ \E x \in DragXs, up \in BOOLEAN :
          /\ viewer' = onMouseMove([Enter EXCEPT !.moves = @ + 1], x, up)
          /\ last' = [ op |-> "dragmove", x |-> x, x0 |-> last.x0,
                       L0 |-> last.L0, n |-> last.n + 1 ]
    /\ untouched' = {}
    /\ UNCHANGED << viewport, issued, latest, alone >>

\* Drags of the default MouseController, ended by a mouseup or interrupted
\* by setLongitude.
NextDrag ==
    \/ DragDown
    \/ DragMove
    \/ MouseUp
    \/ SetLongitude

SpecDrag == Init /\ [][NextDrag]_vars

\* The default MouseController under pointer input and setLongitude.
NextMouse ==
    \/ MouseDown
    \/ MouseMove
    \/ MouseUp
    \/ MouseLeave
    \/ SetMouseEnabled
    \/ SetLongitude

SpecMouse == Init /\ [][NextMouse]_vars

\* Every writer of the default controller's longitude: pointer input,
\* setLongitude and the completion of a load.
NextLongitude ==
    \/ NextMouse
    \/ SetImage
    \/ LoadComplete

SpecLongitude == Init /\ [][NextLongitude]_vars

\* ------------------------------------------------------------ observations
\* Requests the loader has not resolved yet.
InFlight == { r.id : r \in viewer.requests }

\* Requests whose caller has been called back. onLoaded is the only callback
\* setImage takes.
Notified == { viewer.onLoaded[i] : i \in 1..Len(viewer.onLoaded) }

\* The event handled last was a frame callback that rendered.
Rendered ==
    /\ last.op = "animationLoop"
    /\ \E i \in 1..Len(viewer.tick) : viewer.tick[i] = "render"

\* ------------------------------------------------------------------ claims
\* C1: at most one animation tick callback is pending in every reachable
\* state, whatever the sequence of starts, stops, loads and ticks.
C1_AtMostOneTickPending ==
    viewer.frames <= 1

\* C2: when the load of a setImage issued with no other load in flight
\* completes, the loop is running if and only if it was running right
\* before that setImage call.
C2_LoopStateRestoredOnLoad ==
    (last.op = "onLoad" /\ last.alone)
        => (viewer.isAnimating = last.r.isAnimating)

\* C3: no tick renders while isLoadingImage is true and the loop is
\* suspended by the load, the tick scheduled before setImage included.
C3_NoTickWhileLoading ==
    ~ (Rendered /\ viewer.isLoadingImage /\ ~ viewer.isAnimating)

\* C4: once every issued request has completed, texture, label collection
\* and longitude are those of the request issued last, whatever the order
\* in which the loads completed.
C4_LatestRequestWins ==
    (last.op = "onLoad" /\ viewer.requests = {} /\ viewer.images = 1..issued)
        => /\ viewer.texture = latest.id
           /\ viewer.labels = latest.newLabels
           /\ viewer.longitude =
                 setControllerLongitude(viewer, latest.initialLongitude).longitude

\* C5: isLoadingImage is true whenever at least one request is in flight.
C5_LoadingWhileInFlight ==
    (viewer.requests # {}) => viewer.isLoadingImage

\* C6: after a load has failed and no other request is in flight, the
\* loading flag is clear.
C6_FlagClearedAfterFailure ==
    (last.op = "onError" /\ viewer.requests = {}) => ~ viewer.isLoadingImage

\* C7: after the failure of a load requested while the loop was running
\* (and no other load was in flight), the loop is running again.
C7_LoopResumedAfterFailure ==
    (last.op = "onError" /\ last.alone /\ last.r.isAnimating)
        => (viewer.isAnimating /\ viewer.frames > 0)

\* C8: the caller of every resolved setImage has been notified of the
\* outcome, failures included.
C8_EveryOutcomeNotified ==
    \A id \in 1..issued : id \in InFlight \/ id \in Notified

\* C9: when a load fails and nothing but that setImage has written
\* longitude or labels since it was issued, both are what they were right
\* before the setImage call.
C9_FailedLoadKeepsLabelsAndLongitude ==
    (last.op = "onError" /\ last.untouched)
        => /\ viewer.labels = last.labels
           /\ viewer.longitude = last.longitude

\* A load has just failed that was requested of a viewer holding labels and
\* a rotated view, with no operation on either in between.
C9_Witness ==
    /\ last.op = "onError"
    /\ last.untouched
    /\ last.labels # << >>
    /\ last.longitude # 0

\* C10: when a load completes, controller.longitude is the normalised
\* initialLongitude, with either controller installed.
C10_LongitudeNormalisedOnLoad ==
    (last.op = "onLoad") => (viewer.longitude = toRange(last.r.initialLongitude))


\* C11: when a load completes, the label collection is exactly the newLabels
\* of that setImage, in order; the labels held before are discarded, those
\* added while the load was in flight included.
C11_LabelsReplacedOnLoad ==
    (last.op = "onLoad") => (viewer.labels = last.r.newLabels)

\* The first load to complete replaced labels that addLabels had added while
\* it was in flight.
C11_Witness ==
    /\ last.op = "onLoad"
    /\ Len(viewer.onLoaded) = 1
    /\ last.held # << >>
    /\ last.held # viewer.labels

\* ------------------------------------------------------ the MouseController

\* A mousemove the controller handles in the middle of a drag.
Dragged ==
    /\ last.op = "mousemove"
    /\ last.heard
    /\ last.pressed

\* C12: when isMouseEnabled is set to false in the middle of a drag, the drag
\* state is cleared: isPressed is false and prevPosition is null, so that no
\* stale drag resumes when the controller is enabled again.
C12_DisablingClearsDrag ==
    (last.op = "isMouseEnabled" /\ last.pressed /\ ~viewer.isMouseEnabled)
        => (~viewer.isPressed /\ viewer.prevPosition = << >>)

\* C13, as stated: with the default speed, a mousedown at clientX 100 followed
\* by a mousemove at clientX 80 decreases the longitude by exactly 0.02 rad
\* (before normalisation).
C13_DragLeftDecreases ==
    (Dragged /\ last.from = << 100 >> /\ last.x = 80)
        => viewer.longitude \in Normalized(last.before - 20 * DEFAULT_SPEED)

\* C13, amended: with the default speed, a mousedown at clientX 100 followed
\* by a mousemove at clientX 80 increases the longitude by exactly 0.02 rad
\* (before normalisation).
C13_DragLeftIncreases ==
    (Dragged /\ last.from = << 100 >> /\ last.x = 80)
        => viewer.longitude \in Normalized(last.before + 20 * DEFAULT_SPEED)

\* The drag 100 -> 80 from the initial longitude 0: no normalisation takes
\* part and the longitude is 0.02 rad.
C13_Witness ==
    /\ Dragged
    /\ last.from = << 100 >>
    /\ last.x = 80
    /\ last.before = 0
    /\ viewer.longitude = 20 * DEFAULT_SPEED

\* C14: a mousemove during a drag sets the longitude to
\* normalize(longitude - (clientX - prevPosition) * mouseSpeed) and then
\* prevPosition to clientX, whatever the two positions are.
C14_DragRotatesAndRecords ==
    Dragged =>
        /\ last.from # << >>
        /\ viewer.longitude \in
               Normalized(last.before - (last.x - last.from[1]) * DEFAULT_SPEED)
        /\ viewer.prevPosition = << last.x >>

\* A drag to another position whose rotation leaves (-PI, PI] and is
\* brought back by the normalisation.
C14_Witness ==
    /\ Dragged
    /\ last.from # << >>
    /\ last.x # last.from[1]
    /\ viewer.prevPosition = << last.x >>
    /\ viewer.longitude # last.before - (last.x - last.from[1]) * DEFAULT_SPEED
    /\ viewer.longitude # last.before

\* C15: a mousemove outside a drag (before any mousedown, or after a mouseup)
\* changes neither the longitude, nor isPressed, nor prevPosition, and raises
\* no error.
C15_MoveOutsideDragIsNoOp ==
    (last.op = "mousemove" /\ ~last.pressed) =>
        /\ viewer.longitude = last.before
        /\ ~viewer.isPressed
        /\ viewer.prevPosition = last.from
        /\ ~viewer.exception

\* A mousemove the controller hears after a drag that rotated the view by
\* 0.02 rad has ended.
C15_Witness ==
    /\ last.op = "mousemove"
    /\ last.heard
    /\ ~last.pressed
    /\ viewer.moves >= 2
    /\ viewer.longitude = 20 * DEFAULT_SPEED
    /\ viewer.prevPosition = << >>

\* C16: when the pointer leaves the root element in the middle of a drag,
\* the controller marks the drag inactive and clears the recorded position.
C16_LeavingEndsDrag ==
    (last.op = "mouseleave" /\ last.pressed)
        => (~viewer.isPressed /\ viewer.prevPosition = << >>)

\* --------------------------------------------------------------- the angle

\* The canonical range (-PI, PI].
InRange(a) == a > 0 - PI /\ a <= PI

\* y is the angle of the canonical range that differs from x by whole turns.
Normalises(x, y) == InRange(y) /\ (x - y) % (2 * PI) = 0

\* C17: setLongitude(x) followed by a read of controller.longitude gives
\* normalize(x), for negative and multi-revolution x and for 7 PI (which
\* gives PI), with either controller installed.
C17_SetLongitudeRoundTrip ==
    (last.op = "roundTrip") =>
        /\ Normalises(last.x, last.read)
        /\ viewer.longitude = last.read
        /\ (last.x = 7 * PI => last.read = PI)

\* C18: the SimpleController normalises on every set: whatever is assigned
\* to its longitude, through the viewer or directly, the stored value lies
\* in (-PI, PI].
C18_SimpleControllerNormalises ==
    (viewer.controller = "SimpleController") => InRange(viewer.longitude)

\* C19: with the default MouseController the longitude lies in (-PI, PI] in
\* every reachable state, after any sequence of setLongitude calls, load
\* completions and pointer events.
C19_MouseLongitudeInRange ==
    (viewer.controller = "MouseController") => InRange(viewer.longitude)

\* A load has completed, the latest request asked for the initialLongitude
\* -7 PI, and a drag from the longitude PI has crossed the boundary to a
\* negative longitude.
C19_Witness ==
    /\ viewer.controller = "MouseController"
    /\ Len(viewer.onLoaded) >= 1
    /\ Dragged
    /\ last.before = PI
    /\ viewer.longitude < 0
    /\ latest.initialLongitude = 0 - 7 * PI

\* C20: toRange(x) lies in (-PI, PI] for every x, so that toRange(-PI) = PI
\* and toRange(PI) = PI, and toRange(toRange(x)) = toRange(x).
C20_ToRangeBoundAndIdempotent ==
    (last.op = "toRange") =>
        /\ InRange(last.value)
        /\ last.again = last.value
        /\ (last.x \in {PI, 0 - PI} => last.value = PI)

\* toRange applied to the excluded end -PI gives the included end PI.
C20_Witness ==
    /\ last.op = "toRange"
    /\ last.x = 0 - PI
    /\ last.value = PI

\* C21: toRange is periodic with period 2 PI: toRange(x + 2 PI n) = toRange(x)
\* for every x and every integer n, positive or negative.
C21_ToRangePeriodic ==
    (last.op = "toRange") =>
        \A n \in (0 - MaxTurns) .. MaxTurns :
            toRangeOfSum(last.x, n) = last.value

\* ------------------------------------------------------ stopping, resizing

\* C22: after stopAnimationLoop, with no startAnimationLoop and no load
\* completion after it, at most one further tick executes and no tick is
\* pending after that one: a tick that runs to its end with the loop stopped
\* (and no load under way) leaves the frame queue empty.
C22_StopEndsChainByNextTick ==
    (/\ last.op = "animationLoop"
     /\ ~viewer.exception
     /\ ~viewer.isAnimating
     /\ ~viewer.isLoadingImage)
        => viewer.frames = 0

\* What the viewer holds apart from the animating flag and from the outputs
\* of the event being handled.
Held(s) ==
    [ longitude      |-> s.longitude,
      labels         |-> s.labels,
      aspectRatio    |-> s.aspectRatio,
      geometry       |-> s.geometry,
      repeatCount    |-> s.repeatCount,
      texture        |-> s.texture,
      isLoadingImage |-> s.isLoadingImage,
      frames         |-> s.frames,
      controller     |-> s.controller ]

\* C23: stopAnimationLoop changes only the animating flag: longitude, labels,
\* geometry and repeatCount stay as they were; called with the loop already
\* stopped it changes nothing and raises no error.
C23_StopChangesOnlyTheFlag ==
    [][ (last'.op = "stopAnimationLoop") =>
            /\ ~viewer'.isAnimating
            /\ ~viewer'.exception
            /\ Held(viewer') = Held(viewer) ]_vars

\* Once a texture is set no tick throws, so a running loop always has a
\* tick pending.
RunningLoopHasTickPending ==
    (viewer.texture # 0 /\ viewer.isAnimating) => viewer.frames >= 1

\* stopAnimationLoop called with the loop already stopped, on a viewer that
\* shows an image with labels at a longitude other than 0. The call left
\* texture and frames as they were, and a loop running with a texture has a
\* tick pending: with none pending, the loop was stopped before the call.
C23_Witness ==
    /\ last.op = "stopAnimationLoop"
    /\ viewer.texture # 0
    /\ viewer.frames = 0
    /\ ~viewer.isAnimating
    /\ viewer.geometry # 0
    /\ viewer.repeatCount # InitialRepeatCount
    /\ viewer.labels # << >>
    /\ viewer.longitude # 0

\* The lifecycle state Ready: an image is installed and no load is under way.
Ready(s) ==
    /\ ~s.isLoadingImage
    /\ s.texture # 0
    /\ s.texture \in s.images

\* C24: a window resize handled in the Ready state recomputes the geometry
\* and repeatCount, and leaves controller.longitude and the label collection
\* exactly as they were.
C24_ResizeKeepsLongitudeAndLabels ==
    [][ (last'.op = "resize" /\ Ready(viewer)) =>
            /\ ~viewer'.exception
            /\ viewer'.geometry = viewport'
            /\ viewer'.repeatCount.geometry = viewport'
            /\ viewer'.longitude = viewer.longitude
            /\ viewer'.labels = viewer.labels ]_vars

\* A resize to the other window size, handled with an image installed, labels
\* shown and the view turned away from 0.
C24_Witness ==
    /\ last.op = "resize"
    /\ Ready(viewer)
    /\ viewer.geometry = 2
    /\ viewer.repeatCount = [geometry |-> 2, image |-> viewer.texture]
    /\ viewer.labels # << >>
    /\ viewer.longitude # 0

\* C25: after every load completion and every resize handled in Ready,
\* repeatCount is computed from the geometry recomputed in that same update,
\* the geometry of the window as it is now, and from the image installed now.
C25_RepeatCountFromFreshGeometry ==
    (\/ last.op = "onLoad"
     \/ last.op = "resize" /\ Ready(viewer))
        => /\ ~viewer.exception
           /\ viewer.texture \in viewer.images
           /\ viewer.aspectRatio = viewport
           /\ viewer.geometry = viewport
           /\ viewer.repeatCount = [geometry |-> viewport, image |-> viewer.texture]

\* Both images have been loaded and the window is then resized to its other
\* size: repeatCount comes from the new size and the installed image.
C25_Witness ==
    /\ last.op = "resize"
    /\ Ready(viewer)
    /\ Len(viewer.onLoaded) = 2
    /\ viewport = 2
    /\ viewer.repeatCount = [geometry |-> 2, image |-> viewer.texture]

\* ---------------------------------------------------- the scene parameters

\* Finite and greater than 0.
Positive(x) == IsFinite(x) /\ x.n > 0

\* C26: for every valid input (aspectRatio > 0, distortion >= 1, the
\* distortion 1 included; the vertical field of view is the default one)
\* calculateSceneParameters yields a finite, strictly positive cylinderRadius
\* and a finite, strictly positive cameraRadius, and its intermediate d is
\* not 0.
C26_SceneParametersFiniteAndPositive ==
    (/\ last.op = "calculateSceneParameters"
     /\ last.width >= 1
     /\ last.height >= 1)
        => /\ Positive(last.stored.cylinderRadius)
           /\ Positive(last.stored.cameraRadius)
           /\ last.stored.d # Whole(0)

\* The cylinderRadius stored for the window of the event handled last, had
\* the viewer been built with distortion k tenths.
RadiusFor(k) == SceneParameters(last.aspectRatio, Num(k, 10)).cylinderRadius

\* A scene parameter computation for a window at least as wide as high.
Landscape ==
    /\ last.op = "calculateSceneParameters"
    /\ last.height >= 1
    /\ last.width >= last.height

\* C27, as stated: with the default vertical field of view and an aspect
\* ratio of at least 1, for distortions k1 < k2 in (1, 2] the cylinderRadius
\* computed for k2 is strictly greater than the one computed for k1.
C27_RadiusGrowsWithDistortion ==
    (Landscape /\ last.distortion > 10) =>
        \A k2 \in Distortions :
            (k2 > last.distortion) =>
                NumGt(RadiusFor(k2), last.stored.cylinderRadius)

\* C27, amended: with the default vertical field of view and an aspect ratio
\* of at least 1, for distortions k1 < k2 in (1, 1.8] the cylinderRadius
\* computed for k2 is strictly smaller than the one computed for k1; with an
\* aspect ratio of at least 3/2 that holds for k1 < k2 in all of (1, 2].
C27_RadiusShrinksWithDistortion ==
    (Landscape /\ last.distortion > 10) =>
        \A k2 \in Distortions :
            (/\ k2 > last.distortion
             /\ (k2 <= 18 \/ 2 * last.width >= 3 * last.height)) =>
                NumGt(last.stored.cylinderRadius, RadiusFor(k2))

\* A square window and the distortion 1.7: the radius, 11521/37485, is larger
\* than the radius for 1.8, and smaller than the radius for 1.1.
C27_Witness ==
    /\ Landscape
    /\ last.width = 1
    /\ last.height = 1
    /\ last.distortion = 17
    /\ NumGt(last.stored.cylinderRadius, RadiusFor(18))
    /\ NumGt(RadiusFor(11), last.stored.cylinderRadius)

\* C28: when the parent element gives no valid aspect ratio (clientWidth or
\* clientHeight is 0), the update ends in an error and stores no scene
\* parameter, not an infinite or NaN one.
C28_InvalidAspectRatioIsFatal ==
    (/\ last.op = "calculateSceneParameters"
     /\ (last.width = 0 \/ last.height = 0))
        => /\ last.stored.exception
           /\ IsFinite(last.stored.cylinderRadius)
           /\ IsFinite(last.stored.cameraRadius)

\* -------------------------------------------------------------- the labels

\* The angle from the view direction to the label placed last:
\* toRange(angularX * 2 PI - toRange(longitude)).
Delta == toRange(last.bearing - toRange(last.longitude))

\* C29: after a label re-projection the label is shown (display block) if
\* and only if |delta| <= horizontalFov / 2, and hidden (display none)
\* otherwise: hidden on the first micro-radian beyond half the horizontalFov
\* and shown on the last one short of it, to either side and across +-PI.
C29_ShownIffWithinHorizontalFov ==
    (last.op = "updateLabelPositions") =>
        /\ last.label.display \in {"block", "none"}
        /\ (last.label.display = "block") <=> (2 * Abs(Delta) <= last.horizontalFov)
        /\ (2 * Abs(Delta) = last.horizontalFov + 1) => last.label.display = "none"
        /\ (2 * Abs(Delta) = last.horizontalFov - 1) => last.label.display = "block"

\* A label on the first micro-radian beyond the left edge of the view, the
\* view looking at PI: the label's bearing is past the +-PI boundary and
\* the label is hidden.
C29_Witness ==
    /\ last.op = "updateLabelPositions"
    /\ toRange(last.longitude) = PI
    /\ last.bearing > PI
    /\ last.bearing < 2 * PI
    /\ Delta > 0
    /\ 2 * Delta = last.horizontalFov + 1
    /\ last.label.display = "none"

\* C30: a label whose bearing is congruent to the longitude modulo 2 PI
\* (delta = 0) is shown and placed at phi = 0, the point (0, H/2 y, R) on the
\* camera's forward axis, for every longitude and every repeatCount > 0.
C30_LabelAheadIsShownAtPhiZero ==
    (/\ last.op = "updateLabelPositions"
     /\ (last.bearing - last.longitude) % (2 * PI) = 0)
        => /\ last.label.display = "block"
           /\ last.label.delta = 0
           /\ last.label.phi = 0

\* The label straight ahead of a view whose longitude, -7 PI, is outside the
\* canonical range, its bearing being PI; the image is repeated three times.
C30_Witness ==
    /\ last.op = "updateLabelPositions"
    /\ last.longitude = 0 - 7 * PI
    /\ last.bearing = PI
    /\ last.repeatCount = << 3, 1 >>
    /\ last.label.display = "block"
    /\ last.label.phi = 0

\* ------------------------------------------------- the collection, the tick

\* C31: the label collection is insertion-ordered: addLabels(B) on a viewer
\* holding the list A leaves exactly A followed by B, the order of both
\* kept, and clearLabels leaves the empty list, however the two interleave.
C31_LabelsInsertionOrdered ==
    /\ (last.op = "addLabelList") => (viewer.labels = last.held \o last.labels)
    /\ (last.op = "clearLabels") => (viewer.labels = << >>)

\* After a load completed, two labels are added to a collection holding
\* one label: the collection is L1, L2, L1.
C31_Witness ==
    /\ last.op = "addLabelList"
    /\ last.held = << "L1" >>
    /\ last.labels = << "L2", "L1" >>
    /\ viewer.labels = << "L1", "L2", "L1" >>
    /\ Len(viewer.onLoaded) >= 1

\* C32: each executed tick writes the texture offset from repeatCount and
\* the current longitude, renders, re-projects the labels, in this order,
\* and then schedules exactly one successor tick if isAnimating is true at
\* that moment and none otherwise.
C32_TickOffsetRenderLabelsSchedule ==
    (last.op = "animationLoop")
        => /\ viewer.offset = [ texture     |-> viewer.texture,
                                repeatCount |-> viewer.repeatCount,
                                longitude   |-> viewer.longitude ]
           /\ viewer.tick = IF viewer.isAnimating
                            THEN << "offset", "render", "labels", "schedule" >>
                            ELSE << "offset", "render", "labels" >>

\* The same for the ticks that run with a texture assigned.
TickWithTextureRunsToItsEnd ==
    (last.op = "animationLoop" /\ viewer.texture # 0)
        => C32_TickOffsetRenderLabelsSchedule

\* ---------------------------------------------------- the pointer, the drag

\* The pointer events the controller has a handler for.
PointerEvents == { "mousedown", "mousemove", "mouseup" }

\* C33: while isMouseEnabled is false the controller is not subscribed to
\* pointer input: a mousedown, mousemove or mouseup changes neither the
\* longitude nor the drag state (isPressed, prevPosition); once
\* isMouseEnabled is true again, a mousedown starts a drag and a mousemove
\* in a drag rotates the view.
C33_DisabledControllerIgnoresPointer ==
    /\ (viewer.controller = "MouseController")
          => (viewer.listening = viewer.isMouseEnabled)
    /\ (last.op \in PointerEvents /\ ~viewer.isMouseEnabled)
          => /\ viewer.longitude = last.before
             /\ viewer.isPressed = last.pressed
             /\ viewer.prevPosition = last.from
    /\ (last.op = "mousedown" /\ viewer.isMouseEnabled)
          => /\ viewer.isPressed
             /\ viewer.prevPosition = << last.x >>
    /\ (last.op = "mousemove" /\ viewer.isMouseEnabled /\ last.pressed
            /\ last.from # << >>)
          => viewer.longitude \in
                 Normalized(last.before - (last.x - last.from[1]) * DEFAULT_SPEED)

\* The controller was disabled in the middle of a drag that had rotated the
\* view, and a mousemove to another position leaves the longitude alone.
C33_Witness ==
    /\ last.op = "mousemove"
    /\ ~viewer.isMouseEnabled
    /\ ~last.heard
    /\ last.pressed
    /\ last.from # << >>
    /\ last.x # last.from[1]
    /\ viewer.moves >= 2
    /\ viewer.longitude = last.before
    /\ viewer.longitude # 0

\* C34: a drag is path-independent: after a mousedown at x0 followed by any
\* sequence of mousemoves ending at x, with no setLongitude in between, the
\* longitude is normalize(L0 - (x - x0) * mouseSpeed), L0 being the
\* longitude at the mousedown, however many moves there were and however
\* often the value wrapped across PI. Back at x0 that is L0 itself; elsewhere
\* it is what toRange returns for the rounded difference.
C34_DragIsPathIndependent ==
    (last.op = "dragmove")
        => (viewer.longitude \in
               IF last.x = last.x0
               THEN { toRange(last.L0) }
               ELSE Normalized(last.L0 - (last.x - last.x0) * DEFAULT_SPEED))

\* ------------------------------------------------------- loads and resizes

\* How many times the onLoaded callback of request id has been called.
Calls(id) ==
    Cardinality({ i \in 1..Len(viewer.onLoaded) : viewer.onLoaded[i] = id })

\* C35: the onLoaded callback passed to setImage is called exactly once per
\* load that completed (and never for another), and when it is called, as
\* the last step of the completion, that load's longitude, the geometry,
\* repeatCount and that load's labels are installed and isLoadingImage is
\* false.
C35_OnLoadedOnceAfterInstall ==
    /\ \A id \in 1..issued :
          Calls(id) = IF id \in viewer.images THEN 1 ELSE 0
    /\ (last.op = "onLoad")
          => /\ viewer.onLoaded[Len(viewer.onLoaded)] = last.r.id
             /\ viewer.longitude =
                    setControllerLongitude(viewer, last.r.initialLongitude).longitude
             /\ viewer.labels = last.r.newLabels
             /\ viewer.texture = last.r.id
             /\ viewer.geometry = viewport
             /\ viewer.meshGeometry = viewport
             /\ viewer.camera = viewport
             /\ viewer.repeatCount = [geometry |-> viewport, image |-> last.r.id]
             /\ ~viewer.isLoadingImage

\* Two loads were issued and the first is the last to complete: its callback
\* is called after the second's, with its own labels and image installed.
C35_Witness ==
    /\ last.op = "onLoad"
    /\ last.r.id = 1
    /\ viewer.onLoaded = << 2, 1 >>
    /\ viewer.texture = 1
    /\ viewer.labels = last.r.newLabels
    /\ viewer.labels # << >>
    /\ ~viewer.isLoadingImage

\* C36: a tick only ever executes in a state where a texture has been
\* assigned: no tick finds the texture unset and fails dereferencing it, not
\* even after startAnimationLoop on a viewer that was given no image.
C36_TickOnlyWithTexture ==
    (last.op = "animationLoop")
        => (viewer.texture # 0 /\ ~viewer.exception)

\* What update writes: the renderer's size and the aspect ratio, the scene
\* parameters, repeatCount, the scene's cylinder and the camera.
Updated(s) ==
    << s.rendererSize, s.aspectRatio, s.geometry, s.repeatCount,
       s.meshMap, s.meshGeometry, s.camera >>

\* All that update writes comes from the viewport vp and the texture of s.
UpdatedFor(s, vp) ==
    Updated(s) = << vp, vp, vp, [geometry |-> vp, image |-> s.texture],
                    s.texture, vp, vp >>

\* C37: a window resize handled in any lifecycle state (Idle, Loading or
\* Ready) either completes the whole update (renderer size, geometry,
\* repeatCount, scene, camera) or changes nothing of it; it never stops
\* partway with the new geometry beside a stale repeatCount, scene and
\* camera.
C37_ResizeIsAllOrNothing ==
    [][ (last'.op = "resize")
          => \/ UpdatedFor(viewer', viewport')
             \/ Updated(viewer') = Updated(viewer) ]_vars

====
